---- MODULE Spec2Model ----
(***************************************************************************)
(* Model of shredder.c: main's per-file loop (overwrite_file, then         *)
(* random_filename_in_dir / rename / directory fsync / unlink), with       *)
(* fill_random and sync_and_check inlined at the granularity of one        *)
(* system call per step.  Every system call result the kernel can return   *)
(* is a nondeterministic choice.  Console output (verbose) is not          *)
(* modelled.  Bytes are integers 0..255; Uninit marks an indeterminate     *)
(* cell of a malloc'ed or stack buffer.                                    *)
(***************************************************************************)
EXTENDS Integers, Sequences, FiniteSets, TLC

\* ---------------------------------------------------------------- bounds
MaxSize == 3
MaxPasses == 2
MaxFiles == 2
MaxSeed == 2
\* largest file used when several files are on the command line
SmallSize == 1
\* a short getrandom or read delivers the whole request or half of it
Partial(n) == {n, (n + 1) \div 2}

\* ------------------------------------------------------ program constants
\* 1 MiB in the source; scaled so that files both smaller and larger than
\* one chunk fit under MaxSize
CHUNK == 2
\* size_t name_len = 16
NAME_LEN == 16
\* char rndbuf[16]
RND_LEN == 16
\* char name[32+1]
NAME_BUF == 33
\* exit_status = 2
FAIL_STATUS == 2
\* exit(2) in alloc_buf
ALLOC_EXIT == 2

Uninit == 0 - 1
NUL == "NUL"
OrigByte == 10 * 16 + 10
NoFd == 0
\* w while no write call of the current loop iteration has returned
NoW == 0 - 2
\* a NULL char pointer
NoPath == <<>>

\* ------------------------------------------------------------ file system
\* path names are character sequences; the working directory holds the
\* regular file f, a directory d, a FIFO p, a socket s and the directory u,
\* which holds l, a symbolic link to f
PathF == <<"f">>
PathL == <<"u", "/", "l">>
PathD == <<"d">>
PathP == <<"p">>
PathS == <<"s">>
Paths == {PathF, PathL, PathD, PathP, PathS}

Entry(k, n, t) == [kind |-> k, ino |-> n, target |-> t]
NoEnt == Entry("none", 0, NoPath)

InitFs ==
    (PathF :> Entry("reg", 1, NoPath)) @@
    (PathL :> Entry("symlink", 0, PathF)) @@
    (PathD :> Entry("dir", 0, NoPath)) @@
    (PathP :> Entry("fifo", 0, NoPath)) @@
    (PathS :> Entry("sock", 0, NoPath))

Max(a, b) == IF a > b THEN a ELSE b

VARIABLES
    argv, passes, final_zero, rseed,     \* inputs
    fs, data, fpos,                      \* file system, file contents, offset of fd
    pc, i, exit_status, exit_code,       \* main
    newname,
    size, fd, bufsize, buf, pass, written_total, towrite,   \* overwrite_file
    wret,                                \* ssize_t w: what the last write call returned
    frTarget, frLen, frLeft, frTotal, frRet, rndbuf,        \* fill_random
    rfd,                                                    \* fill_random: the device descriptor
    wcount, nSeek, nSync, syncLog, owResult,                \* history of this overwrite_file call
    events, rel,                         \* what happened to the current file; releases
    dfd,
    renamed, dirSync, unlinks, created, attempted, failed   \* history of main

vars == <<argv, passes, final_zero, rseed, fs, data, fpos, pc, i, exit_status,
          exit_code, newname, dfd, size, fd, bufsize, buf, pass, written_total,
          towrite, frTarget, frLen, frLeft, frTotal, frRet, rndbuf, wcount, nSeek,
          nSync, syncLog, owResult, renamed, dirSync, unlinks, created,
          attempted, failed, rfd, events, rel, wret>>

inputVars == <<argv, passes, final_zero, rseed>>
fsVars == <<fs, data, fpos>>
nameVars == <<newname, dfd>>
owVars == <<size, fd, bufsize, buf, pass, written_total, towrite>>
frVars == <<frTarget, frLen, frLeft, frTotal, frRet, rndbuf>>
owHist == <<wcount, nSeek, nSync, syncLog, owResult>>
mainHist == <<renamed, dirSync, unlinks, created, attempted>>
\* renamed .. attempted describe the file being processed; failed collects
\* the indices of the files for which a failure was reported.
\* events: what happened while the current file was processed
\*   "fill_random"      overwrite_file called fill_random
\*   "write"            overwrite_file called write
\*   "eintr"            a write was interrupted (errno == EINTR)
\*   "error"            lseek, fill_random or write failed inside a pass
\*   "diropen_failed"   open(dirname) failed after the rename
\*   "dirfsync_failed"  fsync(dfd) failed after the rename
\* rel: how often overwrite_file called close(fd) and free(buf)
RelInit == [closes |-> 0, frees |-> 0]

\* ----------------------------------------------------------- pure helpers

\* stat(2): follows symbolic links
RECURSIVE StatPath(_, _)
StatPath(p, depth) ==
    IF p \notin DOMAIN fs \/ depth = 0 THEN NoEnt
    ELSE IF fs[p].kind = "symlink" THEN StatPath(fs[p].target, depth - 1)
    ELSE fs[p]

\* what the path itself is, without following links (lstat)
LKind(p) == IF p \in DOMAIN fs THEN fs[p].kind ELSE "none"

\* the random source: byte k of the stream delivered for seed s
RandByte(s, k) == (s * 7 + k * 101) % 256

\* variant: the buffer always has the full chunk size
BufSizeChunk(sz) == CHUNK

\* variant: an empty file gets a buffer of its own size
BufSizeOfFile(sz) == IF CHUNK < sz THEN CHUNK ELSE sz

\* size_t bufsize = (CHUNK < size) ? CHUNK : size ? size : CHUNK
BufSize(sz) == IF CHUNK < sz THEN CHUNK ELSE IF sz # 0 THEN sz ELSE CHUNK

\* variant: the final chunk is not clamped to the remaining byte count
TowriteUnclamped(bs, sz, wt) == bs

\* towrite = bufsize; if (towrite > size - written_total) towrite = size - written_total
Towrite(bs, sz, wt) == IF bs > sz - wt THEN sz - wt ELSE bs

\* variant: the write loop stops after the first chunk that made progress
WhileCondFirstChunk(wt, sz) == wt = 0 /\ wt < sz

\* while (written_total < size)
WhileCond(wt, sz) == wt < sz

\* contents after writing bytes at 0-based offset pos (holes read as zero)
WriteAt(old, pos, bytes) ==
    [j \in 1..Max(Len(old), pos + Len(bytes)) |->
        IF j > pos /\ j <= pos + Len(bytes) THEN bytes[j - pos]
        ELSE IF j <= Len(old) THEN old[j] ELSE 0]

\* per-offset count of successful writes after writing n bytes at offset pos
CountAt(old, pos, n) ==
    [j \in 1..Max(Len(old), pos + n) |->
        (IF j <= Len(old) THEN old[j] ELSE 0) +
        (IF j > pos /\ j <= pos + n THEN 1 ELSE 0)]

\* store n fresh random bytes into b starting at 0-based index at
Store(b, at, n) ==
    [j \in 1..Len(b) |-> IF j > at /\ j <= at + n THEN RandByte(rseed, j - 1) ELSE b[j]]

\* regular-file inodes still linked from some directory entry keep their data
Reap(f, d) ==
    [n \in {f[p].ino : p \in {q \in DOMAIN f : f[q].kind = "reg"}} |-> d[n]]

Remove(f, p) == [q \in (DOMAIN f) \ {p} |-> f[q]]


\* ------------------------------------------------------------------ Init
\* State at line 238: options parsed (passes >= 1), exit_status = 0, no file
\* touched yet.  Long files, several passes, the zero pass and the other
\* random streams are explored with one file on the command line; several
\* files with short files and a single random pass.
ArgvSet == UNION {[1..n -> Paths] : n \in 1..MaxFiles}

Init ==
    /\ argv \in ArgvSet
    /\ passes \in 1..MaxPasses
    /\ final_zero \in BOOLEAN
    /\ rseed \in 1..MaxSeed
    /\ fs = InitFs
    /\ \E L \in 0..MaxSize :
          /\ data = (1 :> [j \in 1..L |-> OrigByte])
          /\ \/ Len(argv) = 1
             \/ L <= SmallSize /\ passes = 1 /\ ~final_zero /\ rseed = 1
    /\ fpos = 0
    /\ pc = "loop"
    /\ i = 1
    /\ exit_status = 0
    /\ exit_code = Uninit
    /\ newname = NoPath
    /\ dfd = NoPath
    /\ size = 0 /\ fd = NoFd /\ bufsize = 0 /\ buf = <<>> /\ pass = 0
    /\ written_total = 0 /\ towrite = 0
    /\ frTarget = "none" /\ frLen = 0 /\ frLeft = 0 /\ frTotal = 0 /\ frRet = 0
    /\ rndbuf = <<>>
    /\ wcount = <<>> /\ nSeek = 0 /\ nSync = 0 /\ syncLog = <<>>
    /\ owResult = "none"
    /\ renamed = FALSE /\ dirSync = FALSE /\ unlinks = <<>> /\ created = {}
    /\ attempted = <<>>
    /\ failed = {}
    /\ rfd = FALSE
    /\ wret = NoW
    /\ events = {}
    /\ rel = RelInit

\* ------------------------------------------------------------------ main

\* variant: exit_status is cleared at the start of every iteration
MainNextFileClearsStatus ==
    /\ pc = "loop"
    /\ i <= Len(argv)
    /\ pc' = "stat"
    /\ exit_status' = 0
    /\ attempted' = Append(attempted, i)
    /\ newname' = NoPath
    /\ dfd' = NoPath
    /\ wcount' = <<>> /\ nSeek' = 0 /\ nSync' = 0 /\ syncLog' = <<>>
    /\ owResult' = "none"
    /\ renamed' = FALSE /\ dirSync' = FALSE /\ unlinks' = <<>> /\ created' = {}
    /\ rndbuf' = <<>>
    /\ events' = {} /\ rel' = RelInit
    /\ UNCHANGED <<inputVars, fsVars, i, exit_code, owVars,
                   frTarget, frLen, frLeft, frTotal, frRet, failed,
                   rfd, wret>>

\* for (int i = optind; i < argc; ++i) { const char *path = argv[i]; ...
MainNextFile ==
    /\ pc = "loop"
    /\ i <= Len(argv)
    /\ pc' = "stat"
    /\ attempted' = Append(attempted, i)
    /\ newname' = NoPath
    /\ dfd' = NoPath
    /\ wcount' = <<>> /\ nSeek' = 0 /\ nSync' = 0 /\ syncLog' = <<>>
    /\ owResult' = "none"
    /\ renamed' = FALSE /\ dirSync' = FALSE /\ unlinks' = <<>> /\ created' = {}
    /\ rndbuf' = <<>>
    /\ events' = {} /\ rel' = RelInit
    /\ UNCHANGED <<inputVars, fsVars, i, exit_status, exit_code, owVars,
                   frTarget, frLen, frLeft, frTotal, frRet, failed,
                   rfd, wret>>

\* return exit_status;
MainReturn ==
    /\ pc = "loop"
    /\ i > Len(argv)
    /\ pc' = "done"
    /\ exit_code' = exit_status
    /\ UNCHANGED <<inputVars, fsVars, i, exit_status, nameVars, owVars, frVars,
                   owHist, mainHist, failed,
                   rfd, events, rel, wret>>

\* variant: the continue is missing, a failed overwrite falls through to
\* the unlink of the path
OverwriteFailedFallsThrough ==
    /\ owResult' = "fail"
    /\ failed' = failed \cup {i}
    /\ exit_status' = FAIL_STATUS
    /\ i' = i
    /\ pc' = "unlink_orig"

\* variant: break instead of continue after a failed overwrite
OverwriteFailedBreaks ==
    /\ owResult' = "fail"
    /\ failed' = failed \cup {i}
    /\ exit_status' = FAIL_STATUS
    /\ i' = Len(argv) + 1
    /\ pc' = "loop"

\* if (overwrite_file(...) != 0) { exit_status = 2; continue; }
OverwriteFailed ==
    /\ owResult' = "fail"
    /\ failed' = failed \cup {i}
    /\ exit_status' = FAIL_STATUS
    /\ i' = i + 1
    /\ pc' = "loop"

\* the locals of overwrite_file (other than the captured size, kept for the
\* record of the call) cease to exist when it returns
OwReturn ==
    /\ buf' = <<>>
    /\ fd' = NoFd
    /\ bufsize' = 0 /\ pass' = 0 /\ written_total' = 0 /\ towrite' = 0
    /\ syncLog' = <<>>
    /\ rel' = [closes |-> rel.closes + 1, frees |-> rel.frees + 1]
    /\ wret' = NoW

\* the locals of fill_random cease to exist when it returns
FrReturn ==
    /\ frTarget' = "none" /\ frLen' = 0 /\ frLeft' = 0 /\ frTotal' = 0
    /\ frRet' = 0

\* variant: the error exits free the buffer but leave the descriptor open
AbortPassKeepsFd ==
    /\ buf' = <<>>
    /\ fd' = fd
    /\ bufsize' = 0 /\ pass' = 0 /\ written_total' = 0 /\ towrite' = 0
    /\ syncLog' = <<>>
    /\ rel' = [closes |-> rel.closes, frees |-> rel.frees + 1]
    /\ wret' = NoW
    /\ OverwriteFailed

\* the error exits inside the passes: free(buf); close(fd); return -1;
AbortPass ==
    /\ OwReturn
    /\ OverwriteFailed

\* -------------------------------------------------------- overwrite_file

\* stat(path, &st) != 0  ->  return -1
StatFail ==
    /\ pc = "stat"
    /\ StatPath(argv[i], 8).kind = "none"
    /\ OverwriteFailed
    /\ UNCHANGED <<inputVars, fsVars, exit_code, nameVars, owVars, frVars,
                   wcount, nSeek, nSync, syncLog, mainHist,
                   rfd, events, rel, wret>>

\* !S_ISREG(st.st_mode)  ->  return -1
StatNotRegular ==
    /\ pc = "stat"
    /\ StatPath(argv[i], 8).kind \notin {"none", "reg"}
    /\ OverwriteFailed
    /\ UNCHANGED <<inputVars, fsVars, exit_code, nameVars, owVars, frVars,
                   wcount, nSeek, nSync, syncLog, mainHist,
                   rfd, events, rel, wret>>

\* off_t size = st.st_size;
StatRegular ==
    /\ pc = "stat"
    /\ StatPath(argv[i], 8).kind = "reg"
    /\ size' = Len(data[StatPath(argv[i], 8).ino])
    /\ wcount' = [j \in 1..Len(data[StatPath(argv[i], 8).ino]) |-> 0]
    /\ pc' = "open"
    /\ UNCHANGED <<inputVars, fsVars, i, exit_status, exit_code, nameVars, fd,
                   bufsize, buf, pass, written_total, towrite, frVars, nSeek,
                   nSync, syncLog, owResult, mainHist, failed,
                   rfd, events, rel, wret>>

\* int fd = open(path, O_WRONLY): follows symbolic links like stat
OpenOk ==
    /\ pc = "open"
    /\ StatPath(argv[i], 8).kind = "reg"
    /\ fd' = StatPath(argv[i], 8).ino
    /\ fpos' = 0
    /\ pc' = "alloc"
    /\ UNCHANGED <<inputVars, fs, data, i, exit_status, exit_code, nameVars,
                   size, bufsize, buf, pass, written_total, towrite, frVars,
                   owHist, mainHist, failed,
                   rfd, events, rel, wret>>

\* fd < 0  ->  return -1
OpenFail ==
    /\ pc = "open"
    /\ OverwriteFailed
    /\ UNCHANGED <<inputVars, fsVars, exit_code, nameVars, owVars, frVars,
                   wcount, nSeek, nSync, syncLog, mainHist,
                   rfd, events, rel, wret>>

\* for (pass = 1; pass <= passes; ++pass): where control goes with pass = p
ForHead(p) ==
    IF p <= passes THEN "seek"
    ELSE IF final_zero THEN "zseek" ELSE "finish"

\* bufsize = ...; buf = alloc_buf(bufsize); pass = 1
AllocOk ==
    /\ pc = "alloc"
    /\ bufsize' = BufSize(size)
    /\ buf' = [j \in 1..BufSize(size) |-> Uninit]
    /\ pass' = 1
    /\ pc' = ForHead(1)
    /\ UNCHANGED <<inputVars, fsVars, i, exit_status, exit_code, nameVars,
                   size, fd, written_total, towrite, frVars, owHist, mainHist, failed,
                   rfd, events, rel, wret>>

\* alloc_buf: malloc fails -> exit(2); the process ends with fd still open
AllocFail ==
    /\ pc = "alloc"
    /\ bufsize' = BufSize(size)
    /\ exit_code' = ALLOC_EXIT
    /\ pc' = "exited"
    /\ UNCHANGED <<inputVars, fsVars, i, exit_status, nameVars, size, fd, buf,
                   pass, written_total, towrite, frVars, owHist, mainHist, failed,
                   rfd, events, rel, wret>>

\* while (written_total < size): where control goes with written_total = wt
WhileHead(wt, fillpc) == IF WhileCond(wt, size) THEN fillpc ELSE "fdatasync"

\* off_t written_total = 0; lseek(fd, 0, SEEK_SET) succeeds
SeekOk ==
    /\ pc = "seek"
    /\ written_total' = 0
    /\ fpos' = 0
    /\ nSeek' = nSeek + 1
    /\ syncLog' = <<>>
    /\ pc' = WhileHead(0, "fill")
    /\ UNCHANGED <<inputVars, fs, data, i, exit_status, exit_code, nameVars,
                   size, fd, bufsize, buf, pass, towrite, frVars, wcount,
                   nSync, owResult, mainHist, failed,
                   rfd, events, rel, wret>>

\* lseek fails: free(buf); close(fd); return -1
SeekFail ==
    /\ pc = "seek"
    /\ AbortPass
    /\ events' = events \cup {"error"}
    /\ UNCHANGED <<inputVars, fsVars, exit_code, nameVars, size, frVars,
                   wcount, nSeek, nSync, mainHist,
                   rfd>>

\* size_t towrite = ...; fill_random(buf, towrite) is entered
FillCall ==
    /\ pc = "fill"
    /\ towrite' = Towrite(bufsize, size, written_total)
    /\ frTarget' = "buf"
    /\ frLen' = Towrite(bufsize, size, written_total)
    /\ frLeft' = Towrite(bufsize, size, written_total)
    /\ frTotal' = 0
    /\ frRet' = Towrite(bufsize, size, written_total)
    /\ pc' = IF Towrite(bufsize, size, written_total) # 0 THEN "getrandom" ELSE "fr_return"
    /\ events' = events \cup {"fill_random"}
    /\ wret' = NoW
    /\ UNCHANGED <<inputVars, fsVars, i, exit_status, exit_code, nameVars, size,
                   fd, bufsize, buf, pass, written_total, rndbuf, owHist,
                   mainHist, failed,
                   rfd, rel>>

\* ------------------------------------------------------------ fill_random
\* The buffer fill_random was handed: buf of overwrite_file or rndbuf of
\* random_filename_in_dir.
FrBuf == IF frTarget = "buf" THEN buf ELSE rndbuf

FrStore(b) ==
    /\ buf' = IF frTarget = "buf" THEN b ELSE buf
    /\ rndbuf' = IF frTarget = "buf" THEN rndbuf ELSE b

\* r = getrandom(p, left, 0) fails with EINTR: continue
GetRandomIntr ==
    /\ pc = "getrandom"
    /\ UNCHANGED vars

\* r < 0, errno != EINTR: got = -1; break; left != 0, fall through to the
\* device (left is not read again)
GetRandomErr ==
    /\ pc = "getrandom"
    /\ frLeft' = 0
    /\ pc' = "devopen"
    /\ UNCHANGED <<inputVars, fsVars, i, exit_status, exit_code, nameVars,
                   owVars, frTarget, frLen, frTotal, frRet, rndbuf, owHist,
                   mainHist, failed,
                   rfd, events, rel, wret>>

\* r >= 0: left -= r; p += r; if (left == 0) return len
GetRandomOk(r) ==
    /\ pc = "getrandom"
    /\ r \in Partial(frLeft)
    /\ FrStore(Store(FrBuf, frLen - frLeft, r))
    /\ frLeft' = frLeft - r
    /\ frRet' = frLen
    /\ pc' = IF frLeft - r = 0 THEN "fr_return" ELSE "getrandom"
    /\ UNCHANGED <<inputVars, fsVars, i, exit_status, exit_code, nameVars,
                   size, fd, bufsize, pass, written_total, towrite, frTarget,
                   frLen, frTotal, owHist, mainHist, failed,
                   rfd, events, rel, wret>>

\* fd = open("/dev/urandom", O_RDONLY) fails: return -1
DevOpenFail ==
    /\ pc = "devopen"
    /\ frRet' = 0 - 1
    /\ pc' = "fr_return"
    /\ UNCHANGED <<inputVars, fsVars, i, exit_status, exit_code, nameVars,
                   owVars, frTarget, frLen, frLeft, frTotal, rndbuf, owHist,
                   mainHist, failed,
                   rfd, events, rel, wret>>

\* open succeeds; ssize_t total = 0
DevOpenOk ==
    /\ pc = "devopen"
    /\ frTotal' = 0
    /\ pc' = "devread"
    /\ rfd' = TRUE
    /\ UNCHANGED <<inputVars, fsVars, i, exit_status, exit_code, nameVars,
                   owVars, frTarget, frLen, frLeft, frRet, rndbuf, owHist,
                   mainHist, failed,
                   events, rel, wret>>

\* read fails with EINTR: continue
DevReadIntr ==
    /\ pc = "devread"
    /\ UNCHANGED vars

\* read fails otherwise: total = -1; break; close(fd); return total
DevReadErr ==
    /\ pc = "devread"
    /\ frTotal' = 0 - 1
    /\ frRet' = 0 - 1
    /\ pc' = "fr_return"
    /\ rfd' = FALSE
    /\ UNCHANGED <<inputVars, fsVars, i, exit_status, exit_code, nameVars,
                   owVars, frTarget, frLen, frLeft, rndbuf, owHist, mainHist, failed,
                   events, rel, wret>>

\* variant: end of stream is reported as a complete fill
DevReadEofComplete ==
    /\ pc = "devread"
    /\ frRet' = frLen
    /\ pc' = "fr_return"
    /\ rfd' = FALSE
    /\ UNCHANGED <<inputVars, fsVars, i, exit_status, exit_code, nameVars,
                   owVars, frTarget, frLen, frLeft, frTotal, rndbuf, owHist,
                   mainHist, failed,
                   events, rel, wret>>

\* r == 0 (end of stream): break; close(fd); return total
DevReadEof ==
    /\ pc = "devread"
    /\ frRet' = frTotal
    /\ pc' = "fr_return"
    /\ rfd' = FALSE
    /\ UNCHANGED <<inputVars, fsVars, i, exit_status, exit_code, nameVars,
                   owVars, frTarget, frLen, frLeft, frTotal, rndbuf, owHist,
                   mainHist, failed,
                   events, rel, wret>>

\* r > 0: total += r; when total reaches len: close(fd); return total
DevReadOk(r) ==
    /\ pc = "devread"
    /\ r \in Partial(frLen - frTotal)
    /\ FrStore(Store(FrBuf, frTotal, r))
    /\ frTotal' = frTotal + r
    /\ frRet' = frTotal + r
    /\ pc' = IF frTotal + r < frLen THEN "devread" ELSE "fr_return"
    /\ rfd' = (frTotal + r < frLen)
    /\ UNCHANGED <<inputVars, fsVars, i, exit_status, exit_code, nameVars,
                   size, fd, bufsize, pass, written_total, towrite, frTarget,
                   frLen, frLeft, owHist, mainHist, failed,
                   events, rel, wret>>

\* ------------------------------------------- overwrite_file, random passes

\* if (fill_random(buf, towrite) != (ssize_t)towrite) { free; close; return -1; }
FillFailed ==
    /\ pc = "fr_return"
    /\ frTarget = "buf"
    /\ frRet # towrite
    /\ FrReturn
    /\ AbortPass
    /\ events' = events \cup {"error"}
    /\ UNCHANGED <<inputVars, fsVars, exit_code, nameVars, size, rndbuf,
                   wcount, nSeek, nSync, mainHist,
                   rfd>>

FillDone ==
    /\ pc = "fr_return"
    /\ frTarget = "buf"
    /\ frRet = towrite
    /\ FrReturn
    /\ pc' = "write"
    /\ UNCHANGED <<inputVars, fsVars, i, exit_status, exit_code, nameVars,
                   owVars, rndbuf, owHist, mainHist, failed,
                   rfd, events, rel, wret>>

\* variant: an interrupted write is treated like any other write error
WriteIntrFatal ==
    /\ pc = "write"
    /\ AbortPass
    /\ events' = events \cup {"write", "eintr"}
    /\ UNCHANGED <<inputVars, fsVars, exit_code, nameVars, size, frVars,
                   wcount, nSeek, nSync, mainHist,
                   rfd>>

\* w = write(fd, buf, towrite) fails with EINTR: continue (back to the loop test)
WriteIntr ==
    /\ pc = "write"
    /\ pc' = WhileHead(written_total, "fill")
    /\ events' = events \cup {"write", "eintr"}
    /\ wret' = 0 - 1
    /\ UNCHANGED <<inputVars, fsVars, i, exit_status, exit_code, nameVars,
                   owVars, frVars, owHist, mainHist, failed,
                   rfd, rel>>

\* variant: a write error is retried like an interrupted write
WriteErrRetried ==
    /\ pc = "write"
    /\ events' = events \cup {"write", "error"}
    /\ pc' = WhileHead(written_total, "fill")
    /\ wret' = 0 - 1
    /\ UNCHANGED <<inputVars, fsVars, i, exit_status, exit_code, nameVars,
                   owVars, frVars, owHist, mainHist, failed,
                   rfd, rel>>

\* w < 0, errno != EINTR: free(buf); close(fd); return -1
WriteErr ==
    /\ pc = "write"
    /\ AbortPass
    /\ events' = events \cup {"write", "error"}
    /\ UNCHANGED <<inputVars, fsVars, exit_code, nameVars, size, frVars,
                   wcount, nSeek, nSync, mainHist,
                   rfd>>

\* the kernel accepted w of the towrite bytes at the file offset
KernelWrite(w) ==
    /\ data' = [data EXCEPT ![fd] = WriteAt(data[fd], fpos, SubSeq(buf, 1, w))]
    /\ fpos' = fpos + w
    /\ wcount' = CountAt(wcount, fpos, w)

\* w >= 0: written_total += w; w is dropped when the loop is left
WriteOk(w) ==
    /\ pc = "write"
    /\ w \in 0..towrite
    /\ KernelWrite(w)
    /\ written_total' = written_total + w
    /\ pc' = WhileHead(written_total + w, "fill")
    /\ events' = events \cup {"write"}
    /\ wret' = IF WhileCond(written_total + w, size) THEN w ELSE NoW
    /\ UNCHANGED <<inputVars, fs, i, exit_status, exit_code, nameVars, size, fd,
                   bufsize, buf, pass, towrite, frVars, nSeek, nSync, syncLog,
                   owResult, mainHist, failed,
                   rfd, rel>>

\* ---------------------------------------------------------- sync_and_check
\* for-loop increment after the checkpoint of a random pass; after the zero
\* pass (pass = passes + 1) control reaches the epilogue
AfterSync == IF pass <= passes THEN ForHead(pass + 1) ELSE "finish"

\* fdatasync(fd) == 0: return 0
FdatasyncOk ==
    /\ pc = "fdatasync"
    /\ nSync' = nSync + 1
    /\ syncLog' = <<"fdatasync_ok">>
    /\ pass' = IF pass <= passes THEN pass + 1 ELSE pass
    /\ pc' = AfterSync
    /\ UNCHANGED <<inputVars, fsVars, i, exit_status, exit_code, nameVars, size,
                   fd, bufsize, buf, written_total, towrite, frVars, wcount,
                   nSeek, owResult, mainHist, failed,
                   rfd, events, rel, wret>>

\* fdatasync fails: go on to fsync
FdatasyncFail ==
    /\ pc = "fdatasync"
    /\ nSync' = nSync + 1
    /\ syncLog' = <<"fdatasync_fail">>
    /\ pc' = "fsync"
    /\ UNCHANGED <<inputVars, fsVars, i, exit_status, exit_code, nameVars,
                   owVars, frVars, wcount, nSeek, owResult, mainHist, failed,
                   rfd, events, rel, wret>>

\* fsync(fd) == 0: return 0
FsyncOk ==
    /\ pc = "fsync"
    /\ syncLog' = Append(syncLog, "fsync_ok")
    /\ pass' = IF pass <= passes THEN pass + 1 ELSE pass
    /\ pc' = AfterSync
    /\ UNCHANGED <<inputVars, fsVars, i, exit_status, exit_code, nameVars, size,
                   fd, bufsize, buf, written_total, towrite, frVars, wcount,
                   nSeek, nSync, owResult, mainHist, failed,
                   rfd, events, rel, wret>>

\* variant: a failed checkpoint is treated like a failed write
FsyncFailFatal ==
    /\ pc = "fsync"
    /\ AbortPass
    /\ UNCHANGED <<inputVars, fsVars, exit_code, nameVars, size, frVars,
                   wcount, nSeek, nSync, mainHist,
                   rfd, events>>

\* fsync fails: return -1; the caller only warns and continues
FsyncFail ==
    /\ pc = "fsync"
    /\ syncLog' = Append(syncLog, "fsync_fail")
    /\ pass' = IF pass <= passes THEN pass + 1 ELSE pass
    /\ pc' = AfterSync
    /\ UNCHANGED <<inputVars, fsVars, i, exit_status, exit_code, nameVars, size,
                   fd, bufsize, buf, written_total, towrite, frVars, wcount,
                   nSeek, nSync, owResult, mainHist, failed,
                   rfd, events, rel, wret>>

\* ---------------------------------------------- overwrite_file, zero pass

\* variant: the zero pass keeps the buffer contents of the last random pass
ZeroSeekOkNoMemset ==
    /\ pc = "zseek"
    /\ written_total' = 0
    /\ fpos' = 0
    /\ nSeek' = nSeek + 1
    /\ buf' = buf
    /\ syncLog' = <<>>
    /\ pc' = WhileHead(0, "zwrite")
    /\ UNCHANGED <<inputVars, fs, data, i, exit_status, exit_code, nameVars,
                   size, fd, bufsize, pass, towrite, frVars, wcount, nSync,
                   owResult, mainHist, failed,
                   rfd, events, rel, wret>>

\* lseek succeeds; memset(buf, 0, bufsize)
ZeroSeekOk ==
    /\ pc = "zseek"
    /\ written_total' = 0
    /\ fpos' = 0
    /\ nSeek' = nSeek + 1
    /\ buf' = [j \in 1..bufsize |-> 0]
    /\ syncLog' = <<>>
    /\ pc' = WhileHead(0, "zwrite")
    /\ UNCHANGED <<inputVars, fs, data, i, exit_status, exit_code, nameVars,
                   size, fd, bufsize, pass, towrite, frVars, wcount, nSync,
                   owResult, mainHist, failed,
                   rfd, events, rel, wret>>

ZeroSeekFail ==
    /\ pc = "zseek"
    /\ AbortPass
    /\ events' = events \cup {"error"}
    /\ UNCHANGED <<inputVars, fsVars, exit_code, nameVars, size, frVars,
                   wcount, nSeek, nSync, mainHist,
                   rfd>>

\* write fails with EINTR: continue
ZeroWriteIntr ==
    /\ pc = "zwrite"
    /\ towrite' = Towrite(bufsize, size, written_total)
    /\ events' = events \cup {"write", "eintr"}
    /\ wret' = 0 - 1
    /\ UNCHANGED <<inputVars, fsVars, pc, i, exit_status, exit_code, nameVars,
                   size, fd, bufsize, buf, pass, written_total, frVars, owHist,
                   mainHist, failed,
                   rfd, rel>>

ZeroWriteErr ==
    /\ pc = "zwrite"
    /\ AbortPass
    /\ events' = events \cup {"write", "error"}
    /\ UNCHANGED <<inputVars, fsVars, exit_code, nameVars, size, frVars,
                   wcount, nSeek, nSync, mainHist,
                   rfd>>

\* towrite = ...; w = write(fd, buf, towrite) >= 0; written_total += w
ZeroWriteOk(w) ==
    /\ pc = "zwrite"
    /\ w \in 0..Towrite(bufsize, size, written_total)
    /\ towrite' = Towrite(bufsize, size, written_total)
    /\ KernelWrite(w)
    /\ written_total' = written_total + w
    /\ pc' = WhileHead(written_total + w, "zwrite")
    /\ events' = events \cup {"write"}
    /\ wret' = IF WhileCond(written_total + w, size) THEN w ELSE NoW
    /\ UNCHANGED <<inputVars, fs, i, exit_status, exit_code, nameVars, size, fd,
                   bufsize, buf, pass, frVars, nSeek, nSync, syncLog, owResult,
                   mainHist, failed,
                   rfd, rel>>

\* free(buf); close(fd); return 0   (a failing close is only reported)
Finish ==
    /\ pc = "finish"
    /\ OwReturn
    /\ owResult' = "ok"
    /\ pc' = "genname"
    /\ UNCHANGED <<inputVars, fsVars, i, exit_status, exit_code, nameVars, size,
                   frVars, wcount, nSeek, nSync, mainHist, failed,
                   rfd, events>>


\* ------------------------------------------------- random_filename_in_dir
HexDigits == <<"0", "1", "2", "3", "4", "5", "6", "7", "8", "9",
               "a", "b", "c", "d", "e", "f">>

\* sprintf(dst, "%02x", (unsigned char)b): two characters
Sprintf02x(b) == <<HexDigits[(b \div 16) + 1], HexDigits[(b % 16) + 1]>>

RECURSIVE LastSlash(_, _)
LastSlash(p, k) ==
    IF k = 0 THEN 0 ELSE IF p[k] = "/" THEN k ELSE LastSlash(p, k - 1)

\* dirname(3) for the path shapes used here (no trailing slash, not the
\* root); dirname(NULL) and a path without a slash give "."
Dirname(p) ==
    IF LastSlash(p, Len(p)) = 0 THEN <<".">>
    ELSE SubSeq(p, 1, LastSlash(p, Len(p)) - 1)

\* the directory entry a path names: a leading "./" is dropped
Canon(p) ==
    IF Len(p) >= 2 /\ p[1] = "." /\ p[2] = "/" THEN SubSeq(p, 3, Len(p)) ELSE p

\* for (i = 0; i < (int)name_len/2; ++i) sprintf(name + i*2, "%02x", rndbuf[i]);
\* each sprintf also stores the terminating NUL
RECURSIVE NameLoop(_, _, _)
NameLoop(name, k, rnd) ==
    IF k < NAME_LEN \div 2
    THEN NameLoop([j \in 1..NAME_BUF |->
                      IF j = 2 * k + 1 THEN Sprintf02x(rnd[k + 1])[1]
                      ELSE IF j = 2 * k + 2 THEN Sprintf02x(rnd[k + 1])[2]
                      ELSE IF j = 2 * k + 3 THEN NUL
                      ELSE name[j]],
                  k + 1, rnd)
    ELSE name

RECURSIVE Strlen(_, _)
Strlen(a, k) == IF a[k + 1] = NUL THEN k ELSE Strlen(a, k + 1)

\* char name[32+1]; the loop; name[name_len] = '\0'; the string in name
FormatName(rnd) ==
    LET filled == NameLoop([j \in 1..NAME_BUF |-> "?"], 0, rnd)
        name == [filled EXCEPT ![NAME_LEN + 1] = NUL]
    IN  SubSeq(name, 1, Strlen(name, 0))

\* snprintf(out, outlen, "%s/%s", dir, name)
JoinPath(dir, name) == dir \o <<"/">> \o name

\* strdup(orig_path) fails: return NULL; main falls through to unlink(path)
NameStrdupFail ==
    /\ pc = "genname"
    /\ newname' = NoPath
    /\ pc' = "unlink_orig"
    /\ UNCHANGED <<inputVars, fsVars, i, exit_status, exit_code, dfd, owVars,
                   frVars, owHist, mainHist, failed,
                   rfd, events, rel, wret>>

\* dir = dirname(path); fill_random(rndbuf, sizeof(rndbuf)) is entered
NameFillCall ==
    /\ pc = "genname"
    /\ frTarget' = "rndbuf"
    /\ frLen' = RND_LEN
    /\ frLeft' = RND_LEN
    /\ frTotal' = 0
    /\ frRet' = RND_LEN
    /\ rndbuf' = [j \in 1..RND_LEN |-> Uninit]
    /\ pc' = "getrandom"
    /\ UNCHANGED <<inputVars, fsVars, i, exit_status, exit_code, nameVars,
                   owVars, owHist, mainHist, failed,
                   rfd, events, rel, wret>>

\* fill_random(...) != sizeof(rndbuf): free(path); return NULL
NameFillFailed ==
    /\ pc = "fr_return"
    /\ frTarget = "rndbuf"
    /\ frRet # RND_LEN
    /\ newname' = NoPath
    /\ pc' = "unlink_orig"
    /\ FrReturn
    /\ rndbuf' = <<>>
    /\ UNCHANGED <<inputVars, fsVars, i, exit_status, exit_code, dfd, owVars,
                   owHist, mainHist, failed,
                   rfd, events, rel, wret>>

\* malloc(outlen) fails: free(path); return NULL
NameNoMem ==
    /\ pc = "fr_return"
    /\ frTarget = "rndbuf"
    /\ frRet = RND_LEN
    /\ newname' = NoPath
    /\ pc' = "unlink_orig"
    /\ FrReturn
    /\ rndbuf' = <<>>
    /\ UNCHANGED <<inputVars, fsVars, i, exit_status, exit_code, dfd, owVars,
                   owHist, mainHist, failed,
                   rfd, events, rel, wret>>

\* the name is formatted and joined to the directory; return out
NameBuilt ==
    /\ pc = "fr_return"
    /\ frTarget = "rndbuf"
    /\ frRet = RND_LEN
    /\ newname' = JoinPath(Dirname(argv[i]), FormatName(rndbuf))
    /\ pc' = "rename"
    /\ FrReturn
    /\ rndbuf' = rndbuf
    /\ UNCHANGED <<inputVars, fsVars, i, exit_status, exit_code, dfd, owVars,
                   owHist, mainHist, failed,
                   rfd, events, rel, wret>>

\* ------------------------------------------------ main: rename and unlink

\* rename(2) moves the entry itself (a symbolic link is not followed) and
\* replaces an existing entry at the new name
Renamed(f, old, new) ==
    [q \in ((DOMAIN f) \ {old}) \cup {new} |-> IF q = new THEN f[old] ELSE f[q]]

\* rename(path, newname) != 0: free(newname); fall through to unlink(path)
RenameFail ==
    /\ pc = "rename"
    /\ pc' = "unlink_orig"
    /\ UNCHANGED <<inputVars, fsVars, i, exit_status, exit_code, nameVars,
                   owVars, frVars, owHist, mainHist, failed,
                   rfd, events, rel, wret>>

\* variant: the directory checkpoint is skipped after the rename
RenameOkSkipsSync ==
    /\ pc = "rename"
    /\ Canon(argv[i]) \in DOMAIN fs
    /\ fs' = Renamed(fs, Canon(argv[i]), Canon(newname))
    /\ data' = Reap(Renamed(fs, Canon(argv[i]), Canon(newname)), data)
    /\ renamed' = TRUE
    /\ created' = created \cup {Canon(newname)}
    /\ pc' = "unlink_new"
    /\ UNCHANGED <<inputVars, fpos, i, exit_status, exit_code, nameVars,
                   owVars, frVars, owHist, dirSync, unlinks, attempted, failed,
                   rfd, events, rel, wret>>

\* rename(path, newname) == 0
RenameOk ==
    /\ pc = "rename"
    /\ Canon(argv[i]) \in DOMAIN fs
    /\ fs' = Renamed(fs, Canon(argv[i]), Canon(newname))
    /\ data' = Reap(Renamed(fs, Canon(argv[i]), Canon(newname)), data)
    /\ renamed' = TRUE
    /\ created' = created \cup {Canon(newname)}
    /\ pc' = "diropen"
    /\ UNCHANGED <<inputVars, fpos, i, exit_status, exit_code, nameVars,
                   owVars, frVars, owHist, dirSync, unlinks, attempted, failed,
                   rfd, events, rel, wret>>

\* tmp = strdup(newname); dir = dirname(tmp); dfd = open(dir, ...) >= 0
DirOpenOk ==
    /\ pc = "diropen"
    /\ \E tmpOk \in BOOLEAN :
          dfd' = Dirname(IF tmpOk THEN newname ELSE NoPath)
    /\ dirSync' = TRUE
    /\ pc' = "dirfsync"
    /\ UNCHANGED <<inputVars, fsVars, i, exit_status, exit_code, newname,
                   owVars, frVars, owHist, renamed, unlinks, created,
                   attempted, failed,
                   rfd, events, rel, wret>>

\* variant: a directory that cannot be opened ends the handling of the file
DirOpenFailFatal ==
    /\ pc = "diropen"
    /\ dirSync' = TRUE
    /\ exit_status' = FAIL_STATUS
    /\ failed' = failed \cup {i}
    /\ i' = i + 1
    /\ pc' = "loop"
    /\ events' = events \cup {"diropen_failed"}
    /\ UNCHANGED <<inputVars, fsVars, exit_code, nameVars,
                   owVars, frVars, owHist, renamed, unlinks, created,
                   attempted,
                   rfd, rel, wret>>

\* dfd < 0: the fsync is skipped; free(tmp)
DirOpenFail ==
    /\ pc = "diropen"
    /\ dirSync' = TRUE
    /\ pc' = "unlink_new"
    /\ events' = events \cup {"diropen_failed"}
    /\ UNCHANGED <<inputVars, fsVars, i, exit_status, exit_code, nameVars,
                   owVars, frVars, owHist, renamed, unlinks, created,
                   attempted, failed,
                   rfd, rel, wret>>

\* fsync(dfd) == 0; close(dfd); free(tmp)
DirFsyncOk ==
    /\ pc = "dirfsync"
    /\ dfd' = NoPath
    /\ pc' = "unlink_new"
    /\ UNCHANGED <<inputVars, fsVars, i, exit_status, exit_code, newname,
                   owVars, frVars, owHist, mainHist, failed,
                   rfd, events, rel, wret>>

\* fsync(dfd) != 0: perror only; close(dfd); free(tmp)
DirFsyncFail ==
    /\ pc = "dirfsync"
    /\ dfd' = NoPath
    /\ pc' = "unlink_new"
    /\ events' = events \cup {"dirfsync_failed"}
    /\ UNCHANGED <<inputVars, fsVars, i, exit_status, exit_code, newname,
                   owVars, frVars, owHist, mainHist, failed,
                   rfd, rel, wret>>

\* unlink(p) == 0: the entry is removed
Unlinked(p) ==
    /\ Canon(p) \in DOMAIN fs
    /\ fs' = Remove(fs, Canon(p))
    /\ data' = Reap(Remove(fs, Canon(p)), data)
    /\ unlinks' = Append(unlinks, [path |-> p, ok |-> TRUE])
    /\ UNCHANGED <<exit_status, failed>>

\* unlink(p) != 0: exit_status = 2
UnlinkRefused(p) ==
    /\ UNCHANGED <<fs, data>>
    /\ unlinks' = Append(unlinks, [path |-> p, ok |-> FALSE])
    /\ failed' = failed \cup {i}
    /\ exit_status' = FAIL_STATUS

\* variant: the renamed entry is reported removed but never unlinked
UnlinkNewOmitted ==
    /\ pc = "unlink_new"
    /\ unlinks' = Append(unlinks, [path |-> newname, ok |-> TRUE])
    /\ i' = i + 1
    /\ pc' = "loop"
    /\ UNCHANGED <<inputVars, fsVars, exit_status, exit_code, nameVars, owVars,
                   frVars, owHist, renamed, dirSync, created, attempted,
                   failed,
                   rfd, events, rel, wret>>

\* unlink(newname) after a successful rename; free(newname); continue
UnlinkNewOk ==
    /\ pc = "unlink_new"
    /\ Unlinked(newname)
    /\ i' = i + 1
    /\ pc' = "loop"
    /\ UNCHANGED <<inputVars, fpos, exit_code, nameVars, owVars, frVars,
                   owHist, renamed, dirSync, created, attempted,
                   rfd, events, rel, wret>>

UnlinkNewFail ==
    /\ pc = "unlink_new"
    /\ UnlinkRefused(newname)
    /\ i' = i + 1
    /\ pc' = "loop"
    /\ UNCHANGED <<inputVars, fpos, exit_code, nameVars, owVars, frVars,
                   owHist, renamed, dirSync, created, attempted,
                   rfd, events, rel, wret>>

\* unlink(path) when no name was generated or the rename failed
UnlinkOrigOk ==
    /\ pc = "unlink_orig"
    /\ Unlinked(argv[i])
    /\ i' = i + 1
    /\ pc' = "loop"
    /\ UNCHANGED <<inputVars, fpos, exit_code, nameVars, owVars, frVars,
                   owHist, renamed, dirSync, created, attempted,
                   rfd, events, rel, wret>>

UnlinkOrigFail ==
    /\ pc = "unlink_orig"
    /\ UnlinkRefused(argv[i])
    /\ i' = i + 1
    /\ pc' = "loop"
    /\ UNCHANGED <<inputVars, fpos, exit_code, nameVars, owVars, frVars,
                   owHist, renamed, dirSync, created, attempted,
                   rfd, events, rel, wret>>

\* ------------------------------------------------------------------ Next
WriteProgress == WriteErr \/ \E w \in 1..CHUNK : WriteOk(w)
ZeroWriteProgress == ZeroWriteErr \/ \E w \in 1..CHUNK : ZeroWriteOk(w)

Next ==
    \/ MainNextFile \/ MainReturn
    \/ StatFail \/ StatNotRegular \/ StatRegular
    \/ OpenOk \/ OpenFail
    \/ AllocOk \/ AllocFail
    \/ SeekOk \/ SeekFail
    \/ FillCall
    \/ GetRandomIntr \/ GetRandomErr \/ (\E r \in 1..RND_LEN : GetRandomOk(r))
    \/ DevOpenFail \/ DevOpenOk
    \/ DevReadIntr \/ DevReadErr \/ DevReadEof \/ (\E r \in 1..RND_LEN : DevReadOk(r))
    \/ FillFailed \/ FillDone
    \/ WriteIntr \/ WriteErr \/ (\E w \in 0..CHUNK : WriteOk(w))
    \/ FdatasyncOk \/ FdatasyncFail \/ FsyncOk \/ FsyncFail
    \/ ZeroSeekOk \/ ZeroSeekFail
    \/ ZeroWriteIntr \/ ZeroWriteErr \/ (\E w \in 0..CHUNK : ZeroWriteOk(w))
    \/ Finish
    \/ NameStrdupFail \/ NameFillCall \/ NameFillFailed \/ NameNoMem \/ NameBuilt
    \/ RenameFail \/ RenameOk
    \/ DirOpenOk \/ DirOpenFail \/ DirFsyncOk \/ DirFsyncFail
    \/ UnlinkNewOk \/ UnlinkNewFail \/ UnlinkOrigOk \/ UnlinkOrigFail

Spec == Init /\ [][Next]_vars

\* The program never pauses while a step that changes the state is possible
\* (an interrupted getrandom or read is retried in place, so it is
\* interrupted only finitely often), and a write that is retried again and
\* again is eventually not interrupted and accepts at least one byte.
FairSpec ==
    /\ Spec
    /\ WF_vars(Next)
    /\ SF_vars(WriteProgress)
    /\ SF_vars(ZeroWriteProgress)

\* The weaker assumption that only rules out endless interruption: the
\* program keeps stepping (an interrupted getrandom or read is retried in
\* place), and from some point on no write is interrupted any more.  A
\* write may still accept no byte.
IntrFairSpec ==
    /\ Spec
    /\ WF_vars(Next)
    /\ <>[](wret # 0 - 1)

\* ================================================================ claims
ZeroPass == IF final_zero THEN 1 ELSE 0
NonRegKinds == {"dir", "symlink", "fifo", "sock"}
InFill == pc \in {"getrandom", "devopen", "devread", "fr_return"} /\ frTarget = "buf"
LastUnlinkOk == unlinks # <<>> /\ unlinks[Len(unlinks)].ok
Basename(p) == SubSeq(p, LastSlash(p, Len(p)) + 1, Len(p))
HexVal(c) == CHOOSE k \in 0..15 : HexDigits[k + 1] = c
HexDecode(str) ==
    [k \in 1..(Len(str) \div 2) |-> 16 * HexVal(str[2 * k - 1]) + HexVal(str[2 * k])]

\* C1: when overwrite_file has returned success for a file of captured
\* length L, every offset in [0, L) was covered by a successful write exactly
\* passes times (one more with the zero pass) and no offset >= L was written,
\* whatever short or interrupted writes occurred.
C1_ExactCoverage ==
    owResult = "ok" =>
        /\ Len(wcount) = size
        /\ \A j \in 1..size : wcount[j] = passes + ZeroPass

\* a successful two-pass run over a file longer than one chunk in which a
\* short write shifted the chunk boundary (offset 1 holds the first buffer byte)
C1_Witness ==
    /\ owResult = "ok" /\ pc = "genname"
    /\ size > CHUNK /\ passes = 2 /\ ~final_zero
    /\ 1 \in DOMAIN data
    /\ data[1][2] = RandByte(rseed, 0)

\* C2: a path that is itself a directory, symbolic link, FIFO or socket is
\* rejected by overwrite_file right after the metadata query: it is never
\* opened or written, and the call returns failure.
C2_NonRegularRejected ==
    /\ (owResult = "none" /\ pc \notin {"loop", "done", "exited", "stat"})
          => LKind(Canon(argv[i])) = "reg"
    /\ (\A k \in 1..Len(argv) : InitFs[argv[k]].kind \in NonRegKinds) =>
          /\ owResult # "ok"
          /\ \A n \in DOMAIN data : \A j \in 1..Len(data[n]) :
                data[n][j] = OrigByte

\* C3: when the rename-and-remove step has completed without reporting a
\* failure, neither the original path nor the intermediate path exists; and
\* when no rename took place, the original path is the one and only path
\* unlinked and no intermediate path was created.
C3_RemovedWithoutTrace ==
    (pc = "loop" /\ owResult = "ok") =>
        /\ LastUnlinkOk =>
              /\ Canon(argv[i - 1]) \notin DOMAIN fs
              /\ newname # NoPath => Canon(newname) \notin DOMAIN fs
        /\ ~renamed =>
              /\ created = {}
              /\ Len(unlinks) = 1 /\ unlinks[1].path = argv[i - 1]

\* the rename failed and the fallback unlink removed the original path
C3_Witness ==
    /\ pc = "loop" /\ owResult = "ok"
    /\ newname # NoPath /\ ~renamed
    /\ LastUnlinkOk

\* C4: the generated basename is 32 lowercase hexadecimal characters that
\* encode all 16 random bytes, in the directory of the original path.
C4_Name32Hex ==
    pc = "rename" =>
        /\ Len(Basename(newname)) = 32
        /\ \A k \in 1..Len(Basename(newname)) :
              \E d \in 1..16 : HexDigits[d] = Basename(newname)[k]
        /\ HexDecode(Basename(newname)) = rndbuf
        /\ Dirname(newname) = Dirname(argv[i])

\* C5: passes run in the order 1..passes, then the zero pass; the k-th seek
\* opens pass k; the checkpoint of a pass is issued only when written_total
\* has reached the file length, and before the seek of the next pass.
C5_PassOrder ==
    /\ pc = "seek" => pass \in 1..passes /\ nSeek = pass - 1 /\ nSync = pass - 1
    /\ pc = "zseek" =>
          final_zero /\ pass = passes + 1 /\ nSeek = passes /\ nSync = passes
    /\ (pc \in {"fill", "write"} \/ InFill) =>
          pass \in 1..passes /\ nSeek = pass /\ nSync = pass - 1
    /\ pc = "zwrite" =>
          final_zero /\ pass = passes + 1 /\ nSeek = pass /\ nSync = passes
    /\ pc = "fdatasync" =>
          written_total = size /\ nSeek = pass /\ nSync = pass - 1
    /\ pc = "fsync" => written_total = size /\ nSeek = pass /\ nSync = pass
    /\ pc = "finish" => nSeek = passes + ZeroPass /\ nSync = passes + ZeroPass

\* the zero pass is about to seek after two complete random passes
C5_Witness ==
    /\ pc = "zseek" /\ passes = 2 /\ size > CHUNK
    /\ nSync = 2

\* C6: after a successful rename the directory checkpoint is attempted
\* before the renamed entry is unlinked, and never before the rename.
C6_RenameSyncUnlink ==
    /\ dirSync => renamed
    /\ pc \in {"diropen", "dirfsync"} => renamed /\ unlinks = <<>>
    /\ pc = "unlink_new" => renamed /\ dirSync /\ unlinks = <<>>
    /\ \A k \in 1..Len(unlinks) :
          (newname # NoPath /\ unlinks[k].path = newname) => renamed /\ dirSync
    /\ (pc = "loop" /\ renamed) =>
          dirSync /\ Len(unlinks) = 1 /\ unlinks[1].path = newname

\* a file went through rename, directory checkpoint and unlink
C6_Witness ==
    /\ pc = "loop" /\ renamed /\ dirSync
    /\ LastUnlinkOk

\* C7: exit_status is 0 exactly as long as no file has failed its overwrite
\* or its unlink, a failure is never cleared by a later file, and main
\* returns that status.
C7_ExitStatus ==
    /\ exit_status \in {0, FAIL_STATUS}
    /\ exit_status = 0 <=> failed = {}
    /\ pc = "done" =>
          /\ exit_code = exit_status
          /\ exit_code = 0 <=> failed = {}

\* the first file failed, the second was removed, and main returned nonzero
C7_Witness ==
    /\ pc = "done" /\ Len(argv) = 2
    /\ failed = {1} /\ owResult = "ok" /\ LastUnlinkOk
    /\ exit_code # 0

\* C8: the status with which the process ends on an allocation failure
\* differs from the status main returns when some file failed.
C8_DistinctAllocStatus ==
    pc = "exited" => exit_code # FAIL_STATUS

C10_SyncFailureHarmless ==
    /\ [][(pc \in {"fdatasync", "fsync"} /\ pc' \notin {"fdatasync", "fsync"}) =>
            /\ pc' = IF pass < passes THEN "seek"
                     ELSE IF pass = passes /\ final_zero THEN "zseek"
                     ELSE "finish"
            /\ pass' = IF pass <= passes THEN pass + 1 ELSE pass
            /\ UNCHANGED <<size, fd, bufsize, buf, written_total, fs, data,
                           fpos, i, exit_status, exit_code, owResult, failed,
                           wcount, nSeek>>]_vars
    /\ [](pc = "fsync" => syncLog = <<"fdatasync_fail">>)

\* both calls of a checkpoint failed and the next pass is about to start
C10_Witness ==
    /\ syncLog = <<"fdatasync_fail", "fsync_fail">>
    /\ pc = "seek" /\ pass = 2

\* C11: a failed lseek, a failed fill_random or a write error other than
\* EINTR inside a pass ends overwrite_file at once with failure: from the
\* failing step on nothing is written, sought or checkpointed for the file,
\* the bytes already written stay as they are, both resources are released,
\* the file is reported as failed and success is never reported for it.
C11_FailureStopsFile ==
    /\ []("error" \in events =>
            /\ owResult = "fail"
            /\ pc \in {"loop", "done"}
            /\ fd = NoFd /\ buf = <<>>
            /\ (i - 1) \in failed
            /\ exit_status = FAIL_STATUS)
    /\ [][("error" \in events') =>
            UNCHANGED <<fs, data, fpos, wcount, nSeek, nSync>>]_vars

\* a write error in the second pass after its first chunk: the first two
\* bytes were written twice, the third once, and they stay that way
C11_Witness ==
    /\ "error" \in events
    /\ wcount = <<2, 2, 1>>
    /\ \A j \in 1..3 : data[1][j] = RandByte(rseed, (j - 1) % CHUNK)
    /\ owResult = "fail"

\* overwrite_file is between its allocation and its return
InCall ==
    \/ pc \in {"alloc", "seek", "fill", "write", "fdatasync", "fsync", "zseek",
               "zwrite", "finish"}
    \/ InFill

\* C12: for a regular file of length zero overwrite_file never calls
\* fill_random and never calls write, its scratch buffer has the fixed chunk
\* size, and when it returns success it has issued one checkpoint per
\* random pass plus one for the zero pass if that was requested.
C12_EmptyFile ==
    /\ (size = 0 /\ InCall) =>
          /\ events = {}
          /\ pc \notin {"fill", "write", "zwrite"} /\ ~InFill
          /\ pc # "alloc" => bufsize = CHUNK /\ Len(buf) = CHUNK
    /\ (size = 0 /\ owResult = "ok") =>
          /\ events \cap {"fill_random", "write"} = {}
          /\ wcount = <<>>
          /\ nSync = passes + ZeroPass

\* an empty file went through two random passes and the zero pass
C12_Witness ==
    /\ size = 0 /\ owResult = "ok"
    /\ passes = 2 /\ final_zero
    /\ nSync = 3

\* C13: with final_zero the zero pass runs after all random passes; it
\* writes from a buffer that holds only zeros and never enters fill_random,
\* and when overwrite_file has returned success every byte of the file is
\* zero until the file is removed.
C13_ZeroPassLast ==
    /\ [](pc \in {"zseek", "zwrite"} =>
            final_zero /\ pass = passes + 1 /\ nSync = passes /\ ~InFill)
    /\ [](pc = "zwrite" => buf = [j \in 1..bufsize |-> 0])
    /\ [][pc = "zwrite" => pc' \in {"zwrite", "fdatasync", "loop"}]_vars
    /\ [][(pc \in {"fdatasync", "fsync"} /\ pass = passes + 1) =>
            pc' \in {"fsync", "finish"}]_vars
    /\ []((owResult = "ok" /\ final_zero) =>
            \A n \in DOMAIN data : data[n] = [j \in 1..size |-> 0])

\* a three-byte file after two random passes and the zero pass
C13_Witness ==
    /\ owResult = "ok" /\ final_zero /\ passes = 2
    /\ size = 3 /\ 1 \in DOMAIN data
    /\ wcount = <<3, 3, 3>>
    /\ data[1] = <<0, 0, 0>>

\* the first n bytes of b come from the random source
Filled(b, n) == \A j \in 1..n : b[j] = RandByte(rseed, j - 1)

\* C14: fill_random returns len only when all len bytes of the buffer were
\* delivered by getrandom or by the random device; after a hard getrandom
\* error the device fills the buffer again from its start; a device that
\* cannot be opened, a read error and end of stream before len bytes give a
\* result different from len.
C14_FillRandomResult ==
    /\ [](pc = "getrandom" =>
            frLeft \in 1..frLen /\ Filled(FrBuf, frLen - frLeft))
    /\ [](pc = "devread" =>
            frTotal \in 0..(frLen - 1) /\ Filled(FrBuf, frTotal))
    /\ [](pc = "fr_return" =>
            /\ frRet \in (0 - 1)..frLen
            /\ frRet = frLen =>
                  /\ Filled(FrBuf, frLen)
                  /\ frTotal \in {0, frLen})
    /\ [][(pc = "getrandom" /\ pc' = "devopen") => UNCHANGED <<buf, rndbuf>>]_vars
    /\ [][(pc = "devopen" /\ pc' = "devread") => frTotal' = 0]_vars
    /\ [][(pc \in {"devopen", "devread"} /\ pc' = "fr_return"
           /\ frTotal' <= frTotal) => frRet' # frLen']_vars

\* all sixteen bytes of the name buffer came from the device after
\* getrandom had failed
C14_Witness ==
    /\ pc = "fr_return" /\ frTarget = "rndbuf"
    /\ frRet = RND_LEN /\ frTotal = RND_LEN
    /\ Filled(rndbuf, RND_LEN)

\* C15: a write that is interrupted (EINTR) is not an error.  In both kinds
\* of pass a write attempt that accepted no byte and did not fail hard
\* leaves written_total, the file offset, the file and every result of the
\* run as they were and leads back to the loop test; every write attempt is
\* made at offset written_total with the length clamped to the remainder,
\* so the retry asks for the same bytes at the same place.
C15_EintrRetried ==
    /\ [](pc = "write" =>
            /\ fpos = written_total
            /\ towrite = Towrite(bufsize, size, written_total)
            /\ towrite >= 1)
    /\ [](pc = "zwrite" =>
            /\ fpos = written_total
            /\ Towrite(bufsize, size, written_total) >= 1)
    /\ [][(pc \in {"write", "zwrite"} /\ wcount' = wcount
           /\ "error" \notin events') =>
            /\ pc' = IF pc = "write" THEN "fill" ELSE "zwrite"
            /\ UNCHANGED <<written_total, fpos, fs, data, size, fd, bufsize,
                           pass, i, exit_status, exit_code, owResult, failed,
                           nSeek, nSync, rel>>
            /\ pc = "zwrite" => UNCHANGED buf]_vars
    /\ []("eintr" \in events => "write" \in events)

\* the single pass over three bytes succeeded although a write was
\* interrupted: every byte was still written exactly once
C15_Witness ==
    /\ "eintr" \in events
    /\ owResult = "ok"
    /\ wcount = <<1, 1, 1>>
    /\ "error" \notin events

\* C16: if system calls are interrupted only finitely often, every call of
\* overwrite_file returns success or failure (or the process ends in
\* alloc_buf), whatever the write calls return: an error or any byte count
\* from 0 to the requested length.
C16_OverwriteReturns ==
    (pc = "stat") ~> (owResult # "none" \/ pc = "exited")

Min(a, b) == IF a < b THEN a ELSE b

\* C17: while overwrite_file runs, bufsize is the smaller of CHUNK and the
\* file length, or CHUNK for an empty file; written_total stays between 0
\* and the file length; every length handed to fill_random and to write is
\* at least 1 and at most the smaller of bufsize and the bytes still to be
\* written; the file length captured from stat is never changed and stays
\* the length of the file.
C17_LoopInvariants ==
    /\ []((InCall /\ pc # "alloc") =>
            /\ bufsize = IF size > 0 THEN Min(CHUNK, size) ELSE CHUNK
            /\ Len(buf) = bufsize
            /\ written_total \in 0..size
            /\ size = Len(data[fd]))
    /\ []((pc = "write" \/ InFill) =>
            /\ towrite \in 1..Min(bufsize, size - written_total)
            /\ InFill => frLen = towrite)
    /\ [][(pc = "zwrite" /\ pc' # "loop") =>
            towrite' \in 1..Min(bufsize, size - written_total)]_vars
    /\ [][(InCall /\ InCall') => size' = size]_vars

\* the last chunk of a three-byte file: one byte although the buffer holds two
C17_Witness ==
    /\ pc = "write"
    /\ size = 3 /\ bufsize = 2
    /\ written_total = 2 /\ towrite = 1
    /\ pass = 2

\* main is past the overwrite of the current file: name generation, rename,
\* directory checkpoint or unlink
AfterOverwrite ==
    \/ pc \in {"genname", "rename", "diropen", "dirfsync", "unlink_new",
               "unlink_orig"}
    \/ pc \in {"getrandom", "devopen", "devread", "fr_return"} /\ frTarget = "rndbuf"

\* C18: rename and unlink are reached only after overwrite_file returned
\* success for the file; for a file whose overwrite failed neither is ever
\* issued and the directory is left as it was; for a file whose overwrite
\* succeeded exactly one unlink is attempted, on the new name if the rename
\* succeeded and on the original path otherwise.
C18_RemoveOnlyAfterSuccess ==
    /\ [](AfterOverwrite => owResult = "ok")
    /\ [](owResult # "ok" =>
            /\ ~renamed /\ ~dirSync /\ unlinks = <<>>
            /\ created = {} /\ newname = NoPath)
    /\ [][(fs' # fs \/ unlinks' # unlinks \/ renamed' # renamed) =>
            \/ owResult = "ok" /\ pc \in {"rename", "unlink_new", "unlink_orig"}
            \/ pc = "loop" /\ pc' = "stat"]_vars
    /\ [](Len(unlinks) <= 1)
    /\ []((pc = "loop" /\ owResult = "ok") =>
            /\ Len(unlinks) = 1
            /\ unlinks[1].path = IF renamed THEN newname ELSE argv[i - 1])
    /\ [](pc = "unlink_new" => renamed /\ unlinks = <<>>)
    /\ [](pc = "unlink_orig" => ~renamed /\ unlinks = <<>>)

\* the rename failed after a name had been generated and the one unlink was
\* made on the original path
C18_Witness ==
    /\ pc = "loop" /\ owResult = "ok"
    /\ ~renamed /\ newname # NoPath
    /\ Len(unlinks) = 1 /\ unlinks[1].path = argv[i - 1]

\* C19: after a successful rename, failing to open the directory and a
\* failing fsync of the directory change nothing but a message: control
\* goes on to unlink(newname), the exit status and the directory are
\* untouched, and whether the file counts as failed depends only on the
\* result of that unlink.
C19_DirSyncFailureHarmless ==
    /\ [](pc \in {"diropen", "dirfsync"} => renamed /\ owResult = "ok")
    /\ [][(pc \in {"diropen", "dirfsync"}) =>
            /\ pc' \in {"dirfsync", "unlink_new"}
            /\ UNCHANGED <<exit_status, exit_code, failed, fs, data, i,
                           unlinks, renamed, newname>>]_vars
    /\ [][pc = "unlink_new" =>
            /\ Len(unlinks') = 1 /\ unlinks'[1].path = newname
            /\ exit_status' = IF unlinks'[1].ok THEN exit_status ELSE FAIL_STATUS
            /\ failed' = IF unlinks'[1].ok THEN failed ELSE failed \cup {i}]_vars
    /\ []((pc = "loop" /\ events \cap {"diropen_failed", "dirfsync_failed"} # {}) =>
            /\ Len(unlinks) = 1 /\ unlinks[1].path = newname
            /\ ((i - 1) \in failed) <=> ~unlinks[1].ok)

\* the directory checkpoint failed, the unlink succeeded, and the exit
\* status is still 0
C19_Witness ==
    /\ pc = "loop"
    /\ "dirfsync_failed" \in events
    /\ Len(unlinks) = 1 /\ unlinks[1].ok
    /\ exit_status = 0 /\ failed = {}

\* C20: while overwrite_file runs after the open, the descriptor is open
\* and the buffer allocated and neither has been released; on every return
\* after the open (success, or a failed lseek, fill_random or write in a
\* random or zero pass) close and free have each been called exactly once;
\* a call that failed before the open released nothing; the descriptor of
\* the random device is open exactly while fill_random reads from it.
C20_ReleasedOnce ==
    /\ rel.closes <= 1 /\ rel.frees <= 1
    /\ pc = "alloc" => rel = RelInit /\ fd # NoFd
    /\ (InCall /\ pc # "alloc") =>
          /\ rel = RelInit
          /\ fd # NoFd
          /\ bufsize >= 1 /\ Len(buf) = bufsize
    /\ (owResult = "ok" \/ "error" \in events) =>
          /\ rel = [closes |-> 1, frees |-> 1]
          /\ fd = NoFd /\ buf = <<>>
    /\ (owResult = "fail" /\ "error" \notin events) =>
          /\ rel = RelInit
          /\ fd = NoFd /\ buf = <<>>
    /\ rfd <=> pc = "devread"

\* a write error in the zero pass after all random passes: descriptor and
\* buffer were released once
C20_Witness ==
    /\ "error" \in events /\ "write" \in events
    /\ final_zero /\ nSeek = passes + 1
    /\ rel = [closes |-> 1, frees |-> 1]
    /\ fd = NoFd /\ buf = <<>>

====
